---- MODULE Spec2Model ----
(***************************************************************************)
(* Chess board state (engine/board.py, a numpy int8 array of square        *)
(* records) and pseudo-legal move generation (engine.py, one               *)
(* generate_moves per piece class).                                        *)
(***************************************************************************)
EXTENDS Integers, Sequences, FiniteSets, TLC

VARIABLES
    board,   \* engine/board.py Board.board: square -> <<color, type, has_moved, occupied>>
    grid,    \* engine.py Board.board: square -> Piece object or None
    piece,   \* engine.py: the Piece object generate_moves is called on (self)
    op,      \* the last call: [name, locs, arg]
    ret,     \* what the last call returned
    err,     \* the exception the last call raised, or NoErr
    nops     \* number of mutating calls made so far

vars == <<board, grid, piece, op, ret, err, nops>>

(***************************************************************************)
(* Constants and enumerations                                              *)
(***************************************************************************)
BOARD_SIZE == 8

valid_range == 0..(BOARD_SIZE - 1)

Squares == valid_range \X valid_range

None == "None"

NoErr == "none"

\* The function f held as an explicit table of its values.
Table(f) == f @@ f

\* An empty square of the engine.py grid
NoPiece == [name |-> None]

\* engine.py Board.__init__: every square None
EmptyGrid == Table([sq \in Squares |-> NoPiece])

Color == {"BLACK", "WHITE"}

PieceType == {"PAWN", "KNIGHT", "BISHOP", "ROOK", "QUEEN", "KING"}

\* The integer an enumeration member is stored as in the int8 array.
ColorValue(c) == IF c = "BLACK" THEN 1 ELSE 2

PieceTypeValue(t) ==
    CASE t = "PAWN" -> 1
      [] t = "KNIGHT" -> 2
      [] t = "BISHOP" -> 3
      [] t = "ROOK" -> 4
      [] t = "QUEEN" -> 5
      [] t = "KING" -> 6

\* Color(v), PieceType(v): the member with that value; ValueError when none.
ColorOf(v) ==
    IF \E c \in Color : ColorValue(c) = v
    THEN CHOOSE c \in Color : ColorValue(c) = v
    ELSE None

PieceTypeOf(v) ==
    IF \E t \in PieceType : PieceTypeValue(t) = v
    THEN CHOOSE t \in PieceType : PieceTypeValue(t) = v
    ELSE None

\* Truth value of an Optional[Color] argument: None and a member whose
\* integer value is 0 are falsy.
Truthy(color) == color # None /\ ColorValue(color) # 0

(***************************************************************************)
(* engine/board.py                                                         *)
(***************************************************************************)
\* numpy accepts an index k of an axis of length BOARD_SIZE when
\* -BOARD_SIZE <= k < BOARD_SIZE and reads a negative k as k + BOARD_SIZE;
\* any other index raises IndexError.
np_ok(loc) ==
    /\ loc[1] \in (0 - BOARD_SIZE)..(BOARD_SIZE - 1)
    /\ loc[2] \in (0 - BOARD_SIZE)..(BOARD_SIZE - 1)

np_index(loc) == <<loc[1] % BOARD_SIZE, loc[2] % BOARD_SIZE>>

is_in_bounds(location) ==
    /\ 0 <= location[1] /\ location[1] < BOARD_SIZE
    /\ 0 <= location[2] /\ location[2] < BOARD_SIZE

\* Board.__init__: np.full(shape=(8, 8, 4), fill_value=0)
EmptyBoard == Table([sq \in Squares |-> <<0, 0, 0, 0>>])

Raise(b, e) == [board |-> b, ret |-> None, err |-> e]

Return(b, r) == [board |-> b, ret |-> r, err |-> NoErr]

\* place_piece without its occupancy check
place_piece_overwriting(b, location, p) ==
    IF ~np_ok(location) THEN Raise(b, "IndexError")
    ELSE Return([b EXCEPT ![np_index(location)] =
                    <<ColorValue(p[1]), PieceTypeValue(p[2]), 0, 1>>],
                <<p, location>>)

place_piece(b, location, p) ==
    IF ~np_ok(location) THEN Raise(b, "IndexError")
    ELSE IF b[np_index(location)][4] # 0 THEN Raise(b, "ValueError")
    ELSE Return([b EXCEPT ![np_index(location)] =
                    <<ColorValue(p[1]), PieceTypeValue(p[2]), 0, 1>>],
                <<p, location>>)

\* remove_piece that also resets the has_moved flag
remove_piece_resetting(b, location) ==
    IF ~np_ok(location) THEN Raise(b, "IndexError")
    ELSE LET r == b[np_index(location)]
         IN  Return([b EXCEPT ![np_index(location)] = <<r[1], r[2], 0, 0>>], None)

remove_piece(b, location) ==
    IF ~np_ok(location) THEN Raise(b, "IndexError")
    ELSE LET r == b[np_index(location)]
         IN  Return([b EXCEPT ![np_index(location)] = <<r[1], r[2], r[3], 0>>], None)

promote_piece(b, location, rank) ==
    IF ~np_ok(location) THEN Raise(b, "IndexError")
    ELSE LET r == b[np_index(location)]
         IN  Return([b EXCEPT ![np_index(location)] =
                        <<r[1], PieceTypeValue(rank), r[3], r[4]>>], None)

\* move_piece without marking the piece as moved
move_piece_unmarked(b, start, end) ==
    IF ~np_ok(start) \/ ~np_ok(end) THEN Raise(b, "IndexError")
    ELSE LET s  == np_index(start)
             e  == np_index(end)
             b1 == [b EXCEPT ![e] = b[s]]
             b2 == [b1 EXCEPT ![s] = <<b1[s][1], b1[s][2], b1[s][3], 0>>]
         IN  Return(b2, None)

move_piece(b, start, end) ==
    IF ~np_ok(start) \/ ~np_ok(end) THEN Raise(b, "IndexError")
    ELSE LET s  == np_index(start)
             e  == np_index(end)
             b1 == [b EXCEPT ![e] = b[s]]
             b2 == [b1 EXCEPT ![s] = <<b1[s][1], b1[s][2], b1[s][3], 0>>]
             b3 == [b2 EXCEPT ![e] = <<b2[e][1], b2[e][2], 1, b2[e][4]>>]
         IN  Return(b3, None)

get_piece(b, loc) ==
    IF ~np_ok(loc) THEN Raise(b, "IndexError")
    ELSE LET r == b[np_index(loc)]
         IN  IF r[4] = 0 THEN Raise(b, "ValueError")
             ELSE IF ColorOf(r[1]) = None \/ PieceTypeOf(r[2]) = None
                  THEN Raise(b, "ValueError")
                  ELSE Return(b, <<ColorOf(r[1]), PieceTypeOf(r[2])>>)

\* get_pieces filtering by color without looking at the occupied flag
get_pieces_by_color_only(b, color) ==
    LET locations ==
            IF ~Truthy(color)
            THEN {sq \in Squares : b[sq][4] = 1}
            ELSE {sq \in Squares : b[sq][1] = ColorValue(color)}
    IN  IF \E sq \in locations : get_piece(b, sq).err # NoErr
        THEN Raise(b, "ValueError")
        ELSE Return(b, {<<get_piece(b, sq).ret, sq>> : sq \in locations})

get_pieces(b, color) ==
    LET locations ==
            IF ~Truthy(color)
            THEN {sq \in Squares : b[sq][4] = 1}
            ELSE {sq \in Squares : b[sq][1] = ColorValue(color) /\ b[sq][4] = 1}
    IN  IF \E sq \in locations : get_piece(b, sq).err # NoErr
        THEN Raise(b, "ValueError")
        ELSE Return(b, {<<get_piece(b, sq).ret, sq>> : sq \in locations})

\* clear that stops one rank short
clear_short(b) ==
    Return(Table([sq \in Squares |->
                    IF sq[1] < BOARD_SIZE - 1 THEN <<0, 0, 0, 0>> ELSE b[sq]]), None)

clear(b) == Return(Table([sq \in Squares |-> <<0, 0, 0, 0>>]), None)

\* Game.reset(), as the test fixture uses it: the board is cleared.
reset(b) == clear(b)

\* BaseTestPiece.setUp: reset, then the two kings; an exception ends it.
setUp(b) ==
    LET r0 == reset(b)
        r1 == place_piece(r0.board, <<0, 4>>, <<"BLACK", "KING">>)
        r2 == place_piece(r1.board, <<7, 4>>, <<"WHITE", "KING">>)
    IN  IF r0.err # NoErr THEN r0
        ELSE IF r1.err # NoErr THEN r1
        ELSE IF r2.err # NoErr THEN r2
        ELSE Return(r2.board, None)

(***************************************************************************)
(* The calls as actions on the board                                       *)
(***************************************************************************)
\* Longest sequence of mutating calls explored.
MaxOps == 3

Call(name, locs, arg, r) ==
    /\ board' = r.board
    /\ ret' = r.ret
    /\ err' = r.err
    /\ op' = [name |-> name, locs |-> locs, arg |-> arg]
    /\ UNCHANGED <<grid, piece>>

\* A call that may write the board counts towards MaxOps; a query does not.
Mutate(name, locs, arg, r) ==
    /\ nops < MaxOps
    /\ nops' = nops + 1
    /\ Call(name, locs, arg, r)

Query(name, locs, arg, r) ==
    /\ UNCHANGED nops
    /\ Call(name, locs, arg, r)

PlacePiece(location, p) ==
    Mutate("place_piece", <<location>>, p, place_piece(board, location, p))

RemovePiece(location) ==
    Mutate("remove_piece", <<location>>, None, remove_piece(board, location))

PromotePiece(location, rank) ==
    Mutate("promote_piece", <<location>>, rank, promote_piece(board, location, rank))

MovePiece(start, end) ==
    Mutate("move_piece", <<start, end>>, None, move_piece(board, start, end))

GetPiece(loc) ==
    Query("get_piece", <<loc>>, None, get_piece(board, loc))

GetPieces(color) ==
    Query("get_pieces", <<>>, color, get_pieces(board, color))

Clear ==
    Mutate("clear", <<>>, None, clear(board))

SetUp ==
    Mutate("setUp", <<>>, None, setUp(board))

(***************************************************************************)
(* Spec: the board under calls with in-range and out-of-range coordinates  *)
(***************************************************************************)
InCoords == {<<0, 4>>, <<7, 4>>, <<3, 3>>}

Coords == InCoords \cup {<<-1, 4>>, <<3, 8>>}

Pieces == {<<"BLACK", "KING">>, <<"WHITE", "PAWN">>}

Ranks == {"QUEEN"}

NoOp == [name |-> "init", locs |-> <<>>, arg |-> None]

Init ==
    /\ board = EmptyBoard
    /\ grid = EmptyGrid
    /\ piece = NoPiece
    /\ op = NoOp
    /\ ret = None
    /\ err = NoErr
    /\ nops = 0

Next ==
    \/ \E l \in Coords, p \in Pieces : PlacePiece(l, p)
    \/ \E l \in Coords : RemovePiece(l)
    \/ \E l \in Coords, r \in Ranks : PromotePiece(l, r)
    \/ \E s \in Coords, e \in Coords : MovePiece(s, e)
    \/ \E l \in Coords : GetPiece(l)
    \/ \E c \in Color \cup {None} : GetPieces(c)
    \/ Clear
    \/ SetUp

Spec == Init /\ [][Next]_vars

\* SpecInRange: the same calls, every coordinate within the board
NextInRange ==
    \/ \E l \in InCoords, p \in Pieces : PlacePiece(l, p)
    \/ \E l \in InCoords : RemovePiece(l)
    \/ \E l \in InCoords, r \in Ranks : PromotePiece(l, r)
    \/ \E s \in InCoords, e \in InCoords : MovePiece(s, e)
    \/ \E l \in InCoords : GetPiece(l)
    \/ \E c \in Color \cup {None} : GetPieces(c)
    \/ Clear
    \/ SetUp

SpecInRange == Init /\ [][NextInRange]_vars

(***************************************************************************)
(* engine.py: move generation                                              *)
(***************************************************************************)
\* Piece.__init__: a new piece has not moved.
NewPiece(cls, color, location) ==
    [cls |-> cls, color |-> color, loc |-> location, has_moved |-> FALSE]

InRange(x) == x[1] \in valid_range /\ x[2] \in valid_range

\* trim_los_to_board that filters nothing
trim_los_to_board_all(los) == los

trim_los_to_board(los) == SelectSeq(los, InRange)

\* Pawn.generate_moves that offers the double step whatever has_moved is
Pawn_generate_moves_ungated(self) ==
    LET i == self.loc[1]
        j == self.loc[2]
        los1 == IF self.color = "WHITE"
                THEN <<<<i + 1, j - 1>>, <<i + 1, j>>, <<i + 1, j + 1>>, <<i + 2, j>>>>
                ELSE <<>>
        los2 == IF self.color = "BLACK"
                THEN <<<<i - 1, j - 1>>, <<i - 1, j>>, <<i - 1, j + 1>>, <<i - 2, j>>>>
                ELSE los1
    IN  SelectSeq(los2, InRange)

Pawn_generate_moves(self) ==
    LET i == self.loc[1]
        j == self.loc[2]
        two(di) == IF ~self.has_moved THEN <<<<i + di, j>>>> ELSE <<>>
        los0 == <<>>
        los1 == IF self.color = "WHITE"
                THEN <<<<i + 1, j - 1>>, <<i + 1, j>>, <<i + 1, j + 1>>>> \o two(2)
                ELSE los0
        los2 == IF self.color = "BLACK"
                THEN <<<<i - 1, j - 1>>, <<i - 1, j>>, <<i - 1, j + 1>>>> \o two(-2)
                ELSE los1
    IN  trim_los_to_board(los2)

Abs(x) == IF x < 0 THEN 0 - x ELSE x

KnightDeltas == <<-2, -1, 1, 2>>

\* The 16 (delta_i, delta_j) pairs in the order the nested loops visit them.
KnightLoop ==
    [k \in 1..(Len(KnightDeltas) * Len(KnightDeltas)) |->
        <<KnightDeltas[((k - 1) \div Len(KnightDeltas)) + 1],
          KnightDeltas[((k - 1) % Len(KnightDeltas)) + 1]>>]

\* Knight.generate_moves that skips occupied squares, as the sliding pieces do
Knight_generate_moves_unoccupied(self, g) ==
    LET keep(d) == /\ Abs(d[1]) # Abs(d[2])
                   /\ (self.loc[1] + d[1]) \in valid_range
                   /\ (self.loc[2] + d[2]) \in valid_range
                   /\ g[<<self.loc[1] + d[1], self.loc[2] + d[2]>>] = NoPiece
        kept == SelectSeq(KnightLoop, keep)
    IN  [k \in 1..Len(kept) |-> <<self.loc[1] + kept[k][1], self.loc[2] + kept[k][2]>>]

Knight_generate_moves(self, g) ==
    LET keep(d) == /\ Abs(d[1]) # Abs(d[2])
                   /\ (self.loc[1] + d[1]) \in valid_range
                   /\ (self.loc[2] + d[2]) \in valid_range
        kept == SelectSeq(KnightLoop, keep)
    IN  [k \in 1..Len(kept) |-> <<self.loc[1] + kept[k][1], self.loc[2] + kept[k][2]>>]

PARALLEL_DIRECTIONS == <<<<-1, 0>>, <<0, -1>>, <<1, 0>>, <<0, 1>>>>

DIAGONAL_DIRECTIONS == <<<<-1, -1>>, <<1, -1>>, <<-1, 1>>, <<1, 1>>>>

\* bound_move_variation of each sliding class
bound_move_variation(cls) ==
    CASE cls = "Bishop" -> {"DIAGONAL"}
      [] cls = "Rook" -> {"PARALLEL"}
      [] cls = "Queen" -> {"PARALLEL", "DIAGONAL"}
      [] cls = "King" -> {"PARALLEL", "DIAGONAL"}
      [] OTHER -> {}

\* bound_move_step_limit of each sliding class: float('inf') or a number
bound_move_step_limit(cls) ==
    IF cls = "King" THEN [inf |-> FALSE, n |-> 1] ELSE [inf |-> TRUE, n |-> 0]

WithinLimit(step, limit) == limit.inf \/ step <= limit.n

\* The while loop of one direction, from `step` on.
RECURSIVE Walk(_, _, _, _, _)
Walk(loc, direction, step, limit, g) ==
    LET i_hat == loc[1] + direction[1] * step
        j_hat == loc[2] + direction[2] * step
    IN  IF /\ WithinLimit(step, limit)
           /\ i_hat \in valid_range
           /\ j_hat \in valid_range
           /\ g[<<i_hat, j_hat>>] = NoPiece
        THEN <<<<i_hat, j_hat>>>> \o Walk(loc, direction, step + 1, limit, g)
        ELSE <<>>

RECURSIVE WalkAll(_, _, _, _)
WalkAll(loc, directions, limit, g) ==
    IF directions = <<>> THEN <<>>
    ELSE Walk(loc, Head(directions), 1, limit, g)
            \o WalkAll(loc, Tail(directions), limit, g)

\* The sliding walk that never looks at the squares it passes
BoundMove_generate_moves_unblocked(self, g) ==
    LET can_move_parallelly == "PARALLEL" \in bound_move_variation(self.cls)
        can_move_diagonally == "DIAGONAL" \in bound_move_variation(self.cls)
        directions == (IF can_move_parallelly THEN PARALLEL_DIRECTIONS ELSE <<>>)
                        \o (IF can_move_diagonally THEN DIAGONAL_DIRECTIONS ELSE <<>>)
    IN  WalkAll(self.loc, directions, bound_move_step_limit(self.cls), EmptyGrid)

BoundMove_generate_moves(self, g) ==
    LET can_move_parallelly == "PARALLEL" \in bound_move_variation(self.cls)
        can_move_diagonally == "DIAGONAL" \in bound_move_variation(self.cls)
        directions == (IF can_move_parallelly THEN PARALLEL_DIRECTIONS ELSE <<>>)
                        \o (IF can_move_diagonally THEN DIAGONAL_DIRECTIONS ELSE <<>>)
    IN  WalkAll(self.loc, directions, bound_move_step_limit(self.cls), g)

\* piece.generate_moves(board), by the class of the piece
generate_moves(self, g) ==
    CASE self.cls = "Pawn" -> Pawn_generate_moves(self)
      [] self.cls = "Knight" -> Knight_generate_moves(self, g)
      [] OTHER -> BoundMove_generate_moves(self, g)

\* engine.py Board.place_new_piece: no occupancy check, the square is overwritten
place_new_piece(g, piece_type, color, location) ==
    LET new_pice == NewPiece(piece_type, color, location)
    IN  [grid |-> [g EXCEPT ![location] = new_pice], ret |-> new_pice]

(***************************************************************************)
(* SpecEngine: generate_moves of a piece on a grid with other pieces       *)
(***************************************************************************)
PieceClass == {"Pawn", "Knight", "Bishop", "Rook", "Queen", "King"}

\* Largest number of other pieces put on the grid.
MaxBlockers == 2

BlockerSquares == {<<0, 3>>, <<2, 3>>, <<3, 3>>, <<4, 5>>}

BlockerKinds == {<<"Pawn", "BLACK">>, <<"Rook", "WHITE">>}

\* The piece under test: any class and color on any square, marked as moved
\* or not.
TestPieces ==
    {[cls |-> c, color |-> col, loc |-> sq, has_moved |-> m] :
        c \in PieceClass, col \in Color, sq \in Squares, m \in BOOLEAN}

InitEngine ==
    /\ board = EmptyBoard
    /\ grid = EmptyGrid
    /\ piece \in TestPieces
    /\ op = NoOp
    /\ ret = None
    /\ err = NoErr
    /\ nops = 0

PlaceNewPiece(piece_type, color, location) ==
    /\ \/ grid[location] # NoPiece
       \/ Cardinality({sq \in BlockerSquares : grid[sq] # NoPiece}) < MaxBlockers
    /\ LET r == place_new_piece(grid, piece_type, color, location)
       IN  /\ grid' = r.grid
           /\ ret' = r.ret
    /\ op' = [name |-> "place_new_piece", locs |-> <<location>>, arg |-> None]
    /\ UNCHANGED <<board, piece, err, nops>>

GenerateMoves ==
    /\ ret' = generate_moves(piece, grid)
    /\ op' = [name |-> "generate_moves", locs |-> <<piece.loc>>, arg |-> None]
    /\ UNCHANGED <<board, grid, piece, err, nops>>

NextEngine ==
    \/ \E k \in BlockerKinds, l \in BlockerSquares : PlaceNewPiece(k[1], k[2], l)
    \/ GenerateMoves

SpecEngine == InitEngine /\ [][NextEngine]_vars

(***************************************************************************)
(* SpecPawn: a pawn's moves read off the board's square record             *)
(***************************************************************************)
\* The Piece object the move generator sees for the piece on a square of
\* the board: its color, its square and its has_moved flag.
PawnAt(b, loc) ==
    [cls |-> "Pawn", color |-> ColorOf(b[loc][1]), loc |-> loc,
     has_moved |-> (b[loc][3] # 0)]

GeneratePawnMoves(loc) ==
    /\ board[loc][4] # 0
    /\ PieceTypeOf(board[loc][2]) = "PAWN"
    /\ Query("generate_moves", <<loc>>, None,
             Return(board, Pawn_generate_moves(PawnAt(board, loc))))

PawnCoords == {<<1, 4>>, <<2, 4>>, <<6, 4>>}

PawnPieces == {<<"WHITE", "PAWN">>, <<"BLACK", "PAWN">>}

NextPawn ==
    \/ \E l \in PawnCoords, p \in PawnPieces : PlacePiece(l, p)
    \/ \E l \in PawnCoords : RemovePiece(l)
    \/ \E l \in PawnCoords, r \in Ranks : PromotePiece(l, r)
    \/ \E s \in PawnCoords, e \in PawnCoords : MovePiece(s, e)
    \/ \E l \in PawnCoords : GeneratePawnMoves(l)

SpecPawn == Init /\ [][NextPawn]_vars

(***************************************************************************)
(* Claims about engine/board.py, checked under Spec and SpecInRange        *)
(***************************************************************************)
Occupied(b, sq) == b[sq][4] # 0

\* The (Color, PieceType) pair a square record stands for.
Held(b, sq) == <<ColorOf(b[sq][1]), PieceTypeOf(b[sq][2])>>

\* C4: place on an occupied in-bounds square raises and changes no square;
\* on an unoccupied one it succeeds, the square becomes occupied with
\* has_moved = 0 and get_piece there returns the very pair that was placed,
\* whatever the square held before.
C4_PlaceContract ==
    [][(op'.name = "place_piece" /\ is_in_bounds(op'.locs[1])) =>
        LET loc == op'.locs[1] IN
        IF Occupied(board, loc)
        THEN err' # NoErr /\ board' = board
        ELSE /\ err' = NoErr
             /\ board'[loc][4] = 1
             /\ board'[loc][3] = 0
             /\ get_piece(board', loc).err = NoErr
             /\ get_piece(board', loc).ret = op'.arg]_vars

\* A successful place on a square whose get_piece gives the placed pair back,
\* with another square occupied at the same time.
C4_Witness ==
    /\ op.name = "place_piece"
    /\ is_in_bounds(op.locs[1])
    /\ err = NoErr
    /\ get_piece(board, op.locs[1]).ret = op.arg
    /\ \E sq \in Squares : sq # op.locs[1] /\ Occupied(board, sq)

\* C5 as stated: for every occupied in-bounds src and every in-bounds dst,
\* dst equal to src included, after move dst is occupied and holds what src
\* held, with has_moved = 1; src, when different, is unoccupied; every other
\* square is unchanged.
C5_MoveAsStated ==
    [][(/\ op'.name = "move_piece"
        /\ is_in_bounds(op'.locs[1])
        /\ is_in_bounds(op'.locs[2])
        /\ Occupied(board, op'.locs[1])) =>
        LET src == op'.locs[1]
            dst == op'.locs[2]
        IN  /\ Occupied(board', dst)
            /\ Held(board', dst) = Held(board, src)
            /\ board'[dst][3] = 1
            /\ (src # dst => ~Occupied(board', src))
            /\ \A sq \in Squares \ {src, dst} : board'[sq] = board[sq]]_vars

\* C5 amended: the same for dst different from src; a move of a square onto
\* itself leaves it unoccupied, with has_moved = 1 and its color and type
\* fields kept, and changes no other square.
C5_MoveAmended ==
    [][(/\ op'.name = "move_piece"
        /\ is_in_bounds(op'.locs[1])
        /\ is_in_bounds(op'.locs[2])
        /\ Occupied(board, op'.locs[1])) =>
        LET src == op'.locs[1]
            dst == op'.locs[2]
        IN  /\ err' = NoErr
            /\ Held(board', dst) = Held(board, src)
            /\ board'[dst][3] = 1
            /\ (src # dst => Occupied(board', dst) /\ ~Occupied(board', src))
            /\ (src = dst => ~Occupied(board', dst))
            /\ \A sq \in Squares \ {src, dst} : board'[sq] = board[sq]]_vars

\* A move between two different in-bounds squares that left a piece on dst,
\* with a third square occupied.
C5_Witness ==
    /\ op.name = "move_piece"
    /\ is_in_bounds(op.locs[1])
    /\ is_in_bounds(op.locs[2])
    /\ op.locs[1] # op.locs[2]
    /\ Occupied(board, op.locs[2])
    /\ board[op.locs[2]][3] = 1
    /\ ~Occupied(board, op.locs[1])
    /\ \E sq \in Squares \ {op.locs[1], op.locs[2]} : Occupied(board, sq)

\* C6: get_pieces() is exactly the occupied squares with the piece each
\* holds, and get_pieces(c) exactly those whose owner is c.
C6_GetPiecesExact ==
    op.name = "get_pieces" =>
        /\ err = NoErr
        /\ ret = {<<Held(board, sq), sq>> :
                    sq \in {x \in Squares :
                              /\ Occupied(board, x)
                              /\ (op.arg \in Color => ColorOf(board[x][1]) = op.arg)}}

\* get_pieces(BLACK) on a board with a black piece, a white piece and a
\* vacated square that still carries the color of the black piece.
C6_Witness ==
    /\ op.name = "get_pieces"
    /\ op.arg = "BLACK"
    /\ ret # {}
    /\ \E sq \in Squares : Occupied(board, sq) /\ board[sq][1] = ColorValue("WHITE")
    /\ \E sq \in Squares : ~Occupied(board, sq) /\ board[sq][1] = ColorValue("BLACK")

\* C7: after clear every square is unoccupied: get_piece raises everywhere,
\* get_pieces() is empty and place_piece succeeds on every square; the
\* fixture's setUp never raises and leaves exactly the two kings.
C7_ClearThenPlace ==
    /\ op.name = "clear" =>
        /\ \A sq \in Squares : get_piece(board, sq).err = "ValueError"
        /\ get_pieces(board, None).ret = {}
        /\ \A sq \in Squares, c \in Color, t \in PieceType :
              place_piece(board, sq, <<c, t>>).err = NoErr
    /\ op.name = "setUp" =>
        /\ err = NoErr
        /\ get_pieces(board, None).ret =
              {<<<<"BLACK", "KING">>, <<0, 4>>>>, <<<<"WHITE", "KING">>, <<7, 4>>>>}

\* setUp run as the third call of a run.
C7_Witness ==
    /\ op.name = "setUp"
    /\ nops >= 3
    /\ err = NoErr

\* C9: a call given a coordinate outside [0, N) x [0, N) raises and changes
\* no square.
C9_OutOfBoundsRejected ==
    [][(/\ op'.name \in {"place_piece", "remove_piece", "move_piece",
                         "promote_piece", "get_piece"}
        /\ \E i \in DOMAIN op'.locs : ~is_in_bounds(op'.locs[i])) =>
        (err' # NoErr /\ board' = board)]_vars

HasMovedChanged(sq) == board'[sq][3] # board[sq][3]

\* C10 as stated: a has_moved flag changes only from 0 to 1 and only in
\* move_piece, unless the whole board is cleared.
C10_MonotonicAsStated ==
    [][\A sq \in Squares : HasMovedChanged(sq) =>
        \/ op'.name \in {"clear", "setUp"}
        \/ (op'.name = "move_piece" /\ board[sq][3] = 0 /\ board'[sq][3] = 1)]_vars

\* C10 amended: a flag goes 0 -> 1 only in move_piece; it goes 1 -> 0 only in
\* a clear or in a place_piece on a square that was unoccupied, whose stale
\* flag the new record overwrites; remove_piece and promote_piece change no
\* flag, and the flag of a square that stays occupied is never reset.
C10_MonotonicAmended ==
    [][\A sq \in Squares : HasMovedChanged(sq) =>
        \/ op'.name \in {"clear", "setUp"}
        \/ (op'.name = "move_piece" /\ board[sq][3] = 0 /\ board'[sq][3] = 1)
        \/ (/\ op'.name = "place_piece"
            /\ ~Occupied(board, sq)
            /\ board'[sq][3] = 0
            /\ Occupied(board', sq))]_vars

\* A piece that has been moved: its square is occupied with has_moved = 1.
C10_Witness ==
    /\ op.name = "move_piece"
    /\ err = NoErr
    /\ \E sq \in Squares : Occupied(board, sq) /\ board[sq][3] = 1

(***************************************************************************)
(* Claims about engine.py, checked under SpecEngine and SpecPawn           *)
(***************************************************************************)
Range(seq) == {seq[k] : k \in DOMAIN seq}

NoDuplicates(seq) == Cardinality(Range(seq)) = Len(seq)

Generated == op.name = "generate_moves"

\* C1: every coordinate generate_moves returns, for any piece class, color,
\* source square, has_moved value and grid, has rank and file in [0, N).
C1_MovesInBounds ==
    Generated =>
        \A k \in DOMAIN ret :
            /\ 0 <= ret[k][1] /\ ret[k][1] < BOARD_SIZE
            /\ 0 <= ret[k][2] /\ ret[k][2] < BOARD_SIZE

\* A pawn next to the edge: one of its candidates was off the board.
C1_Witness ==
    /\ Generated
    /\ piece.cls = "Pawn"
    /\ ~piece.has_moved
    /\ Len(ret) \in {1, 2, 3}

ParallelSet == {<<-1, 0>>, <<1, 0>>, <<0, -1>>, <<0, 1>>}

DiagonalSet == {<<-1, -1>>, <<-1, 1>>, <<1, -1>>, <<1, 1>>}

EnabledDirections(cls) ==
    CASE cls = "Bishop" -> DiagonalSet
      [] cls = "Rook" -> ParallelSet
      [] cls \in {"Queen", "King"} -> ParallelSet \cup DiagonalSet

StepAt(loc, d, s) == <<loc[1] + s * d[1], loc[2] + s * d[2]>>

\* Squares 1..k along d are all on the board and unoccupied, and k is
\* within the step limit of the class.
FreeRun(cls, loc, d, k) ==
    /\ (cls = "King" => k <= 1)
    /\ \A s \in 1..k : StepAt(loc, d, s) \in Squares /\ grid[StepAt(loc, d, s)] = NoPiece

Reach(cls, loc, d) ==
    CHOOSE k \in 0..BOARD_SIZE : FreeRun(cls, loc, d, k) /\ ~FreeRun(cls, loc, d, k + 1)

\* C2: a sliding piece gets, in each of its directions, exactly the squares
\* at steps 1..k, k the longest free run within the step limit; an occupied
\* square and the squares behind it are never returned.
C2_SlidingExact ==
    (Generated /\ piece.cls \in {"Bishop", "Rook", "Queen", "King"}) =>
        /\ Range(ret) =
              UNION {{StepAt(piece.loc, d, s) : s \in 1..Reach(piece.cls, piece.loc, d)} :
                        d \in EnabledDirections(piece.cls)}
        /\ NoDuplicates(ret)
        /\ \A k \in DOMAIN ret : grid[ret[k]] = NoPiece
        /\ (piece.cls = "Rook" /\ piece.loc = <<0, 0>>) =>
              /\ (\A sq \in Squares \ {<<0, 0>>} : grid[sq] = NoPiece) => Len(ret) = 14
              /\ grid[<<0, 3>>] # NoPiece =>
                    {sq \in Range(ret) : sq[1] = 0} = {<<0, 1>>, <<0, 2>>}

\* The rook on (0,0) with a piece on (0,3).
C2_Witness ==
    /\ Generated
    /\ piece.cls = "Rook"
    /\ piece.loc = <<0, 0>>
    /\ grid[<<0, 3>>] # NoPiece
    /\ {sq \in Range(ret) : sq[1] = 0} = {<<0, 1>>, <<0, 2>>}
    /\ Len(ret) = 9

LShapes ==
    {d \in (-2..2) \X (-2..2) : {Abs(d[1]), Abs(d[2])} = {1, 2}}

\* C8: a knight gets exactly the on-board squares among the 8 L-shaped
\* offsets, each once, occupied or not.
C8_KnightExact ==
    (Generated /\ piece.cls = "Knight") =>
        /\ Range(ret) = {StepAt(piece.loc, d, 1) : d \in LShapes} \cap Squares
        /\ NoDuplicates(ret)
        /\ piece.loc = <<4, 4>> =>
              Range(ret) = {<<2, 3>>, <<2, 5>>, <<3, 2>>, <<3, 6>>,
                            <<5, 2>>, <<5, 6>>, <<6, 3>>, <<6, 5>>}

\* The knight on (4,4) with its target (2,3) occupied.
C8_Witness ==
    /\ Generated
    /\ piece.cls = "Knight"
    /\ piece.loc = <<4, 4>>
    /\ grid[<<2, 3>>] # NoPiece
    /\ <<2, 3>> \in Range(ret)
    /\ Len(ret) = 8

====
